---- MODULE Spec2Model ----
(***************************************************************************)
(* Model of opal_scraper.py: the trip-row normalisation of                 *)
(* extract_trip_items (amount, time, trip type) and the control flow of    *)
(* scrape_opal (login, card loop, output files, browser session).          *)
(*                                                                         *)
(* Text is a sequence of one-character strings, so that replace, strip,    *)
(* split, lower and the "in" test are computed as Python computes them.    *)
(* An optional value (None or a value) is a sequence of length 0 or 1.     *)
(* A float is [m, e], the number m / 10^e with no trailing zero.           *)
(***************************************************************************)
EXTENDS Integers, Sequences, FiniteSets, TLC

\* ------------------------------------------------------------ bounds ----
MaxAmountLen == 4
MaxTimeLen == 5
MaxFragments == 2
MaxCards == 2
MaxPolls == 2

\* ------------------------------------------------------- text helpers ----
None == <<>>
Some(v) == <<v>>
IsSome(o) == Len(o) = 1
Val(o) == o[1]

Digits == {"0", "1", "2", "3", "4", "5", "6", "7", "8", "9"}

DigitVal(c) ==
  CASE c = "0" -> 0 [] c = "1" -> 1 [] c = "2" -> 2 [] c = "3" -> 3
    [] c = "4" -> 4 [] c = "5" -> 5 [] c = "6" -> 6 [] c = "7" -> 7
    [] c = "8" -> 8 [] c = "9" -> 9

\* str.replace(c, "") for a one-character c
Remove(s, c) == SelectSeq(s, LAMBDA x : x # c)

Whitespace == {" ", "\n"}

RECURSIVE LStrip(_)
LStrip(s) ==
  IF Len(s) > 0 /\ s[1] \in Whitespace THEN LStrip(Tail(s)) ELSE s

RECURSIVE RStrip(_)
RStrip(s) ==
  IF Len(s) > 0 /\ s[Len(s)] \in Whitespace
  THEN RStrip(SubSeq(s, 1, Len(s) - 1)) ELSE s

\* str.strip()
Strip(s) == RStrip(LStrip(s))

\* str.split(c): always at least one part
RECURSIVE Split(_, _)
Split(s, c) ==
  IF \A i \in 1..Len(s) : s[i] # c
  THEN <<s>>
  ELSE LET k == CHOOSE i \in 1..Len(s) :
                  s[i] = c /\ \A j \in 1..(i - 1) : s[j] # c
       IN <<SubSeq(s, 1, k - 1)>> \o Split(SubSeq(s, k + 1, Len(s)), c)

LowerChar(c) ==
  CASE c = "A" -> "a" [] c = "B" -> "b" [] c = "E" -> "e" [] c = "F" -> "f"
    [] c = "G" -> "g" [] c = "H" -> "h" [] c = "I" -> "i" [] c = "L" -> "l"
    [] c = "M" -> "m" [] c = "N" -> "n" [] c = "O" -> "o" [] c = "R" -> "r"
    [] c = "S" -> "s" [] c = "T" -> "t" [] c = "U" -> "u" [] c = "Y" -> "y"
    [] OTHER -> c

\* str.lower()
Lower(s) == [i \in 1..Len(s) |-> LowerChar(s[i])]

\* sub in s
Contains(s, sub) ==
  \E i \in 0..(Len(s) - Len(sub)) :
    \A j \in 1..Len(sub) : s[i + j] = sub[j]

\* str.isdigit()
IsDigitStr(s) == Len(s) > 0 /\ \A i \in 1..Len(s) : s[i] \in Digits

RECURSIVE DigitsToInt(_)
DigitsToInt(s) ==
  IF Len(s) = 0 THEN 0
  ELSE 10 * DigitsToInt(SubSeq(s, 1, Len(s) - 1)) + DigitVal(s[Len(s)])

RECURSIVE IntToStr(_)
IntToStr(n) ==
  LET d == <<"0", "1", "2", "3", "4", "5", "6", "7", "8", "9">>
  IN IF n < 10 THEN <<d[n + 1]>> ELSE IntToStr(n \div 10) \o <<d[(n % 10) + 1]>>

\* sequences over S of length at most n
SeqUpTo(S, n) == UNION {[1..k -> S] : k \in 0..n}

\* --------------------------------------------------- int() and float() ----
\* int(s): surrounding whitespace and one sign are accepted
IntBody(s) ==
  LET t == Strip(s)
  IN IF Len(t) > 0 /\ t[1] \in {"+", "-"} THEN Tail(t) ELSE t

IntOk(s) == IsDigitStr(IntBody(s))

IntVal(s) ==
  LET t == Strip(s)
      v == DigitsToInt(IntBody(s))
  IN IF Len(t) > 0 /\ t[1] = "-" THEN 0 - v ELSE v

RECURSIVE Norm(_, _)
Norm(m, e) ==
  IF e > 0 /\ m % 10 = 0 THEN Norm(m \div 10, e - 1) ELSE [m |-> m, e |-> e]

Neg(f) == [m |-> 0 - f.m, e |-> f.e]

Zero == [m |-> 0, e |-> 0]

\* float(s) over digits, ".", sign and whitespace: digits with at most one
\* ".", at least one digit
FloatBody(s) ==
  LET t == Strip(s)
  IN IF Len(t) > 0 /\ t[1] \in {"+", "-"} THEN Tail(t) ELSE t

FloatOk(s) ==
  LET b == FloatBody(s)
      parts == Split(b, ".")
  IN /\ Len(parts) \in {1, 2}
     /\ \A i \in 1..Len(parts) :
          \A j \in 1..Len(parts[i]) : parts[i][j] \in Digits
     /\ \E i \in 1..Len(parts) : Len(parts[i]) > 0

FloatVal(s) ==
  LET t == Strip(s)
      parts == Split(FloatBody(s), ".")
      frac == IF Len(parts) = 2 THEN parts[2] ELSE <<>>
      v == Norm(DigitsToInt(parts[1] \o frac), Len(frac))
  IN IF Len(t) > 0 /\ t[1] = "-" THEN Neg(v) ELSE v

\* --------------------------------------------------------- datetimes ----
\* A datetime is the wall-clock reading [day, hour, minute] at a UTC offset of
\* off hours; day counts days, so midnight wraps to the previous or next day.
LocalOffset == 11

AbsMinutes(dt) == dt.day * 1440 + dt.hour * 60 + dt.minute - dt.off * 60

WallMinutes(dt) == dt.day * 1440 + dt.hour * 60 + dt.minute

\* datetime.astimezone(timezone(timedelta(hours = off)))
AsTimezone(dt, off) ==
  LET w == AbsMinutes(dt) + off * 60
  IN [day |-> w \div 1440, hour |-> (w % 1440) \div 60,
      minute |-> w % 60, off |-> off]

\* The instants datetime.now() may return, as UTC readings.
Clocks ==
  { [day |-> 5, hour |-> 2, minute |-> 30, off |-> 0],
    [day |-> 5, hour |-> 20, minute |-> 30, off |-> 0] }

\* the instant of the scrape_opal runs explored
RunClock == [day |-> 5, hour |-> 20, minute |-> 30, off |-> 0]

TimeParts(time_text) == Split(time_text, ":")

\* hh, mm = time_text.split(":"), int(hh), int(mm) and datetime.replace all
\* succeed
TimeTextOk(time_text) ==
  LET parts == TimeParts(time_text)
  IN /\ Len(parts) = 2
     /\ IntOk(parts[1]) /\ IntOk(parts[2])
     /\ IntVal(parts[1]) \in 0..23
     /\ IntVal(parts[2]) \in 0..59

to_utc_and_localMutNoConvert(time_text, clock) ==
  IF TimeTextOk(time_text)
  THEN LET parts == TimeParts(time_text)
           local_time == [AsTimezone(clock, LocalOffset) EXCEPT
                            !.hour = IntVal(parts[1]),
                            !.minute = IntVal(parts[2])]
       IN <<local_time, [local_time EXCEPT !.off = 0]>>
  ELSE <<clock, clock>>

\* to_utc_and_local: <<time_local, time_utc>>
to_utc_and_local(time_text, clock) ==
  IF TimeTextOk(time_text)
  THEN LET parts == TimeParts(time_text)
           local_time == [AsTimezone(clock, LocalOffset) EXCEPT
                            !.hour = IntVal(parts[1]),
                            !.minute = IntVal(parts[2])]
       IN <<local_time, AsTimezone(local_time, 0)>>
  ELSE <<clock, clock>>

\* ------------------------------------------------------------ amounts ----
\* amount_text.replace("$", "").replace(",", "").replace("-", "").strip()
CleanAmount(amount_text) ==
  Strip(Remove(Remove(Remove(amount_text, "$"), ","), "-"))

\* float(clean) raises ValueError
AmountRaises(amount_text) ==
  LET clean == CleanAmount(amount_text)
  IN Len(clean) > 0 /\ ~FloatOk(clean)

\* amt, defined when float(clean) does not raise
ParseAmount(amount_text) ==
  LET clean == CleanAmount(amount_text)
      amt == IF Len(clean) > 0 THEN FloatVal(clean) ELSE Zero
  IN IF Contains(amount_text, <<"-">>) THEN Neg(amt) ELSE amt

\* ---------------------------------------------------------- trip type ----
T_train == <<"t", "r", "a", "i", "n">>
T_metro == <<"m", "e", "t", "r", "o">>
T_bus == <<"b", "u", "s">>
T_ferry == <<"f", "e", "r", "r", "y">>
T_light == <<"l", "i", "g", "h", "t">>
T_rail == <<"r", "a", "i", "l">>

Train == <<"T", "r", "a", "i", "n">>
Metro == <<"M", "e", "t", "r", "o">>
Bus == <<"B", "u", "s">>
Ferry == <<"F", "e", "r", "r", "y">>
LightRail == <<"L", "i", "g", "h", "t", " ", "R", "a", "i", "l">>
Unknown == <<"U", "n", "k", "n", "o", "w", "n">>

TripTypes == {Train, Metro, Bus, Ferry, LightRail, Unknown}

\* The icon of a row: no element matches tni-icon[iconname] ("none"), the
\* query or get_attribute raises ("raises"), or the element's iconname.
NoIcon == [kind |-> "none", name |-> <<>>]
IconRaises == [kind |-> "raises", name |-> <<>>]
Icon(name) == [kind |-> "attr", name |-> name]

ClassifyMutBusFirst(iconname) ==
  LET name == Lower(iconname)
  IN IF Contains(name, T_bus) THEN Bus
     ELSE IF Contains(name, T_train) THEN Train
     ELSE IF Contains(name, T_metro) THEN Metro
     ELSE IF Contains(name, T_ferry) THEN Ferry
     ELSE IF Contains(name, T_light) \/ Contains(name, T_rail) THEN LightRail
     ELSE Unknown

\* the if/elif chain on name = iconname.lower()
Classify(iconname) ==
  LET name == Lower(iconname)
  IN IF Contains(name, T_train) THEN Train
     ELSE IF Contains(name, T_metro) THEN Metro
     ELSE IF Contains(name, T_bus) THEN Bus
     ELSE IF Contains(name, T_ferry) THEN Ferry
     ELSE IF Contains(name, T_light) \/ Contains(name, T_rail) THEN LightRail
     ELSE Unknown

TripType(icon) ==
  IF icon.kind = "attr" THEN Classify(icon.name) ELSE Unknown

\* ------------------------------------------------------------ one row ----
\* A row of .card-activity-item: each of date, from, to, amount_span, amount
\* is None when the row has no such element, else the element's inner text.
AmountEl(item) ==
  IF IsSome(item.amount_span) THEN item.amount_span ELSE item.amount

RowComplete(item) ==
  IsSome(item.date) /\ IsSome(item.from) /\ IsSome(item.to)
    /\ IsSome(AmountEl(item))

\* the row's try block leaves through "except Exception"
RowRaises(item) ==
  RowComplete(item) /\ AmountRaises(Strip(Val(AmountEl(item))))

Description(from_loc, to_loc, trip_type) ==
  from_loc \o <<" ", "-", ">", " ">> \o to_loc \o <<" ", "(">> \o trip_type
    \o <<")">>

TripRecord(item, card_name, clock) ==
  LET time_text == Strip(Val(item.date))
      from_loc == Strip(Val(item.from))
      to_loc == Strip(Val(item.to))
      amount_text == Strip(Val(AmountEl(item)))
      trip_type == TripType(item.icon)
      times == to_utc_and_local(time_text, clock)
  IN [time_local |-> times[1], time_utc |-> times[2],
      amount |-> ParseAmount(amount_text), currency |-> "AUD",
      description |-> Description(from_loc, to_loc, trip_type),
      card_id |-> card_name, trip_type |-> trip_type,
      tap_on_location |-> from_loc, tap_off_location |-> to_loc]

\* What one iteration of "for item in items" appends to trips.
RowTrips(item, card_name, clock) ==
  IF ~RowComplete(item) THEN <<>>
  ELSE IF RowRaises(item) THEN <<>>
  ELSE <<TripRecord(item, card_name, clock)>>

RECURSIVE ItemsTrips(_, _, _)
\* the trips list after the loop over items
ItemsTrips(items, card_name, clock) ==
  IF Len(items) = 0 THEN <<>>
  ELSE RowTrips(items[1], card_name, clock)
         \o ItemsTrips(Tail(items), card_name, clock)

\* ------------------------------------------------------ card identity ----
NameLimit == 50

\* a value Python treats as true: not None and not ""
Truthy(o) == IsSome(o) /\ Len(Val(o)) > 0

\* [line.strip() for line in text.split('\n') if line.strip()]
TextLines(text) ==
  LET raw == Split(text, "\n")
      stripped == [i \in 1..Len(raw) |-> Strip(raw[i])]
  IN SelectSeq(stripped, LAMBDA l : Len(l) > 0)

IsAmountLine(line) ==
  \/ IsDigitStr(Remove(Remove(Remove(line, "."), "-"), " "))
  \/ /\ IsDigitStr(Remove(Remove(Remove(Remove(line, "$"), "."), "-"), " "))
     /\ Contains(line, <<".">>)

RECURSIVE CardInfoLoop(_, _, _)
CardInfoLoop(lines, card_name, balance) ==
  IF Len(lines) = 0 THEN <<card_name, balance>>
  ELSE LET line == lines[1]
       IN IF line[1] = "$"
          THEN CardInfoLoop(Tail(lines), card_name, Some(line))
          ELSE IF ~IsAmountLine(line) /\ 0 < Len(line) /\ Len(line) < NameLimit
               THEN CardInfoLoop(Tail(lines), Some(line), balance)
               ELSE CardInfoLoop(Tail(lines), card_name, balance)

\* parse_card_info_from_text: <<card_name, balance>>, each None or a text
parse_card_info_from_text(text) ==
  LET r == CardInfoLoop(TextLines(text), None, None)
  IN <<IF Truthy(r[1]) THEN Some(Strip(Val(r[1]))) ELSE None, r[2]>>

\* wait_for_value_change: polls are the readings of get_first_visible_text
\* inside the while loop, final the reading after it.
wait_for_value_change(polls, final, previous_value) ==
  LET hit(i) == Truthy(polls[i]) /\ Val(polls[i]) # previous_value
  IN IF \E i \in 1..Len(polls) : hit(i)
     THEN polls[CHOOSE i \in 1..Len(polls) :
                  hit(i) /\ \A j \in 1..(i - 1) : ~hit(j)]
     ELSE final

\* f"Card_{idx}"
CardLabel(idx) == <<"C", "a", "r", "d", "_">> \o IntToStr(idx)

\* lines 248-256: card_name of the card at position idx
ResolveName(card_name_from_thumb, prev, idx, polls, final) ==
  IF Truthy(card_name_from_thumb) THEN Val(card_name_from_thumb)
  ELSE LET shown == IF Len(prev) > 0
                    THEN wait_for_value_change(polls, final, prev)
                    ELSE final
       IN IF Truthy(shown) THEN Val(shown) ELSE CardLabel(idx)

\* bal: None, or float(balance_text.replace("$", "").replace(",", "").strip())
ParseBalance(balance_text) ==
  IF ~Truthy(balance_text) THEN None
  ELSE LET txt == Strip(Remove(Remove(Val(balance_text), "$"), ","))
       IN IF FloatOk(txt) THEN Some(FloatVal(txt)) ELSE None

BalanceEntry(card_name, bal) ==
  [card_id |-> card_name, balance |-> bal, currency |-> "AUD"]

\* balance_list after "if bal is not None: balance_list.append(...)"
AppendBalance(list, card_name, bal) ==
  IF IsSome(bal) THEN Append(list, BalanceEntry(card_name, Val(bal))) ELSE list

BalanceObjectMutAlwaysFlat(list, clock) ==
  [balance |-> IF Len(list) > 0 THEN Some(list[1].balance) ELSE None,
   currency |-> "AUD",
   card_id |-> IF Len(list) > 0 THEN list[1].card_id ELSE None,
   last_updated |-> clock]

\* lines 288-300: the object dumped to balance.json
BalanceObject(list, clock) ==
  IF Len(list) <= 1
  THEN [balance |-> IF Len(list) > 0 THEN Some(list[1].balance) ELSE None,
        currency |-> "AUD",
        card_id |-> IF Len(list) > 0 THEN list[1].card_id ELSE None,
        last_updated |-> clock]
  ELSE [cards |-> list, last_updated |-> clock]

\* ---------------------------------------------------- what the page shows ----
N_Jo == <<"J", "o">>
N_Al == <<"A", "l">>
B_9_7 == <<"$", "9", ".", "7">>
B_na == <<"n", "a">>

\* inner text of the element after a card thumb
SiblingTexts ==
  { N_Jo \o <<"\n">> \o B_9_7, B_9_7, N_Al, <<"1", ".", "5">> }

\* the thumb's next sibling: evaluate_handle or inner_text raises, there is
\* no sibling element or its text is empty, or its text
Siblings ==
  {[kind |-> "raises", text |-> <<>>], [kind |-> "none", text |-> <<>>]}
    \cup {[kind |-> "text", text |-> t] : t \in SiblingTexts}

\* readings of get_first_visible_text(".opal-selector__card-name")
DisplayReadings == {None, Some(<<>>), Some(N_Jo)}

\* readings of get_first_visible_text(".opal-selector__card-value")
BalanceReadings == {None, Some(B_9_7), Some(B_na)}

\* messages of the element .alert-danger, .error, .login-error
ErrorElements ==
  { [kind |-> "none", text |-> <<>>], [kind |-> "raises", text |-> <<>>],
    [kind |-> "text", text |-> <<" ">>], [kind |-> "text", text |-> <<"n", "o">>] }

R_good ==
  [date |-> Some(<<"0", "9", ":", "1", "2">>), from |-> Some(<<"A">>),
   to |-> Some(<<"B">>), amount_span |-> Some(<<"-", "$", "2", ".", "1">>),
   amount |-> Some(<<"-", "$", "2", ".", "1">>),
   icon |-> Icon(T_train \o <<"-", "i", "c", "o", "n">>)]

R_other ==
  [date |-> Some(<<"n", "o", "w">>), from |-> Some(<<"B">>),
   to |-> Some(<<"C">>), amount_span |-> None, amount |-> Some(<<"$", "1">>),
   icon |-> NoIcon]

R_noTo == [R_good EXCEPT !.to = None]

R_noDate == [R_good EXCEPT !.date = None]

R_noFrom == [R_other EXCEPT !.from = None]

R_noAmount == [R_other EXCEPT !.amount = None]

R_badAmount == [R_other EXCEPT !.amount = Some(B_na)]

\* the rows query_selector_all(".card-activity-item") may return for a card
RowLists ==
  { <<R_noDate, R_good, R_noFrom, R_badAmount, R_noTo, R_other, R_noAmount>> }

\* ---------------------------------------------------------------- state ----
VARIABLES
  pc,               \* position in scrape_opal
  result,           \* how scrape_opal was left: "none" while it runs
  launched,         \* p.chromium.launch has returned
  closes,           \* number of calls of browser.close()
  log,              \* the error and warning records logged
  clock,            \* the instant datetime.now() returns
  num_cards, idx, prev_name, card_name, balance_from_thumb,
  balance_list, all_transactions,
  files,            \* transactions.json and balance.json: None until written
  writes,           \* the files opened for writing, in order
  visits,           \* history: one record per card the run started on
  item, row_out     \* one row and what extract_trip_items made of it

vars ==
  <<pc, result, launched, closes, log, clock, num_cards, idx, prev_name,
    card_name, balance_from_thumb, balance_list, all_transactions, files,
    writes, visits, item, row_out>>

scrapeVars ==
  <<pc, result, launched, closes, log, num_cards, idx, prev_name,
    card_name, balance_from_thumb, balance_list, all_transactions, files,
    writes, visits>>

NotExtracted == [done |-> FALSE, trips |-> <<>>, warned |-> FALSE]

InitScrape ==
  /\ pc = "start" /\ result = "none"
  /\ launched = FALSE /\ closes = 0
  /\ log = <<>>
  /\ num_cards = 0 /\ idx = 0
  /\ prev_name = <<>> /\ card_name = None /\ balance_from_thumb = None
  /\ balance_list = <<>> /\ all_transactions = <<>>
  /\ files = [transactions |-> None, balance |-> None]
  /\ writes = <<>>
  /\ visits = <<>>

Init ==
  /\ InitScrape
  /\ clock = RunClock
  /\ item = R_good /\ row_out = NotExtracted

Error(msg, detail) == [level |-> "error", msg |-> msg, detail |-> detail]
Warning(msg, detail) == [level |-> "warning", msg |-> msg, detail |-> detail]

rowVars == <<item, row_out, clock>>

\* ------------------------------------------------ scrape_opal: the login ----
Leave(how) == pc' = "done" /\ result' = how

\* p.chromium.launch, browser.new_context, context.new_page
Launch ==
  /\ pc = "start"
  /\ launched' = TRUE
  /\ pc' = "goto"
  /\ UNCHANGED <<result, closes, log, num_cards, idx, prev_name, card_name,
                 balance_from_thumb, balance_list, all_transactions, files,
                 writes, visits, rowVars>>

Goto ==
  /\ pc = "goto"
  /\ pc' = "wait_form"
  /\ UNCHANGED <<result, launched, closes, log, num_cards, idx, prev_name,
                 card_name, balance_from_thumb, balance_list,
                 all_transactions, files, writes, visits, rowVars>>

\* An exception no handler of scrape_opal catches leaves the function.
Propagate(at) ==
  /\ pc = at
  /\ Leave("raised")
  /\ UNCHANGED <<launched, closes, log, num_cards, idx, prev_name, card_name,
                 balance_from_thumb, balance_list, all_transactions, files,
                 writes, visits, rowVars>>

GotoRaises == Propagate("goto")

LoginFormFound ==
  /\ pc = "wait_form"
  /\ pc' = "fill"
  /\ UNCHANGED <<result, launched, closes, log, num_cards, idx, prev_name,
                 card_name, balance_from_thumb, balance_list,
                 all_transactions, files, writes, visits, rowVars>>

LoginFormTimeoutMutNoClose ==
  /\ pc = "wait_form"
  /\ log' = Append(log, Error("Login form not found.", None))
  /\ Leave("form_not_found")
  /\ UNCHANGED <<launched, closes, num_cards, idx, prev_name, card_name,
                 balance_from_thumb, balance_list, all_transactions, files,
                 writes, visits, rowVars>>

\* except PWTimeout of lines 166-169
LoginFormTimeout ==
  /\ pc = "wait_form"
  /\ log' = Append(log, Error("Login form not found.", None))
  /\ closes' = closes + 1
  /\ Leave("form_not_found")
  /\ UNCHANGED <<launched, num_cards, idx, prev_name, card_name,
                 balance_from_thumb, balance_list, all_transactions, files,
                 writes, visits, rowVars>>

\* page.fill twice, the click on the login button, wait_for_load_state
FillAndSubmit ==
  /\ pc = "fill"
  /\ pc' = "validate"
  /\ UNCHANGED <<result, launched, closes, log, num_cards, idx, prev_name,
                 card_name, balance_from_thumb, balance_list,
                 all_transactions, files, writes, visits, rowVars>>

\* one of the four calls of lines 172-177 raises
LoginStepRaises == Propagate("fill")

LoginValidated ==
  /\ pc = "validate"
  /\ pc' = "detect"
  /\ UNCHANGED <<result, launched, closes, log, num_cards, idx, prev_name,
                 card_name, balance_from_thumb, balance_list,
                 all_transactions, files, writes, visits, rowVars>>

\* error_msg of lines 185-192
ErrorMsg(error_el) ==
  IF error_el.kind = "text" THEN Some(Strip(error_el.text)) ELSE None

\* except PWTimeout of lines 183-201; the detail None of "Login failed."
\* stands for 'Please check your username or password.'
LoginTimeout ==
  /\ pc = "validate"
  /\ \E still_login \in BOOLEAN, error_el \in ErrorElements :
       LET error_msg == ErrorMsg(error_el)
       IN IF still_login \/ Truthy(error_msg)
          THEN /\ log' = Append(log, Error("Login failed.",
                            IF Truthy(error_msg) THEN error_msg ELSE None))
               /\ Leave("login_failed")
          ELSE /\ log' = Append(log,
                            Error("Login timeout or unexpected page state.",
                                  None))
               /\ Leave("login_timeout")
  /\ closes' = closes + 1
  /\ UNCHANGED <<launched, num_cards, idx, prev_name, card_name,
                 balance_from_thumb, balance_list, all_transactions, files,
                 writes, visits, rowVars>>

\* lines 204-212; a raising query leaves card_thumbs empty
DetectCards ==
  /\ pc = "detect"
  /\ \E n \in 0..MaxCards :
       /\ num_cards' = n
       /\ idx' = IF n = 0 THEN 0 ELSE 1
       /\ pc' = IF n = 0 THEN "single" ELSE "card"
  /\ UNCHANGED <<result, launched, closes, log, prev_name, card_name,
                 balance_from_thumb, balance_list, all_transactions, files,
                 writes, visits, rowVars>>

\* ------------------------------------------------ scrape_opal: the cards ----
\* what wait_for_selector and query_selector_all give extract_trip_items
Extractions ==
  {[kind |-> "timeout", items |-> <<>>]}
    \cup {[kind |-> "items", items |-> l] : l \in RowLists}

\* extract_trip_items, when it does not raise
extract_trip_items(ext, name, now) ==
  IF ext.kind = "timeout" THEN <<>> ELSE ItemsTrips(ext.items, name, now)

\* the history record of the card at position i (0: the single-card branch)
\* raised: the step of the card that raised last ("none": no step did)
Visit(i, never_differed, card_id, raised) ==
  [idx |-> i, never_differed |-> never_differed, card_id |-> card_id,
   raised |-> raised, bal |-> None, items |-> None]

SetLast(seq, field, v) ==
  [seq EXCEPT ![Len(seq)] =
     [f \in DOMAIN seq[Len(seq)] |-> IF f = field THEN v ELSE seq[Len(seq)][f]]]

\* lines 214-227: the account shows no card thumbs
SingleCard ==
  /\ pc = "single"
  /\ \E name \in DisplayReadings, balance_text \in BalanceReadings,
        ext \in Extractions :
       LET bal == ParseBalance(balance_text)
           trips == extract_trip_items(ext, name, clock)
       IN /\ balance_list' = AppendBalance(balance_list, name, bal)
          /\ all_transactions' = all_transactions \o trips
          /\ visits' = Append(visits,
               [Visit(0, FALSE, name, "none") EXCEPT
                  !.bal = bal,
                  !.items = IF ext.kind = "items" THEN Some(ext.items)
                            ELSE None])
  /\ pc' = "write_tx"
  /\ UNCHANGED <<result, launched, closes, log, num_cards, idx, prev_name,
                 card_name, balance_from_thumb, files, writes, rowVars>>

\* a call of lines 215-226 raises: nothing catches it
SingleCardRaises == Propagate("single")

\* card_name_from_thumb, balance_from_thumb of lines 234-243
ThumbInfo(sib) ==
  IF sib.kind = "text" /\ Len(sib.text) > 0
  THEN parse_card_info_from_text(sib.text)
  ELSE <<None, None>>

NextCardMutBreak ==
  /\ idx' = idx + 1
  /\ pc' = "write_tx"
  /\ card_name' = None
  /\ balance_from_thumb' = None

\* "continue", or the end of the loop body: on to the next thumb
NextCard ==
  /\ idx' = idx + 1
  /\ pc' = IF idx = num_cards THEN "write_tx" ELSE "card"
  /\ card_name' = None
  /\ balance_from_thumb' = None

\* except Exception of lines 279-281
CardWarning == Warning("Error processing card", Some(IntToStr(idx)))

\* lines 233-257: sibling text, click, card_name, prev_name
CardName ==
  /\ pc = "card"
  /\ \E sib \in Siblings, polls \in SeqUpTo(DisplayReadings, MaxPolls),
        final \in DisplayReadings :
       LET info == ThumbInfo(sib)
           waits == ~Truthy(info[1]) /\ Len(prev_name) > 0
           name == ResolveName(info[1], prev_name, idx, polls, final)
           same == /\ \A i \in 1..Len(polls) : polls[i] = Some(prev_name)
                   /\ final = Some(prev_name)
       IN /\ IF waits THEN Len(polls) >= 1 ELSE polls = <<>>
          /\ Truthy(info[1]) => final = None
          /\ card_name' = Some(name)
          /\ prev_name' = name
          /\ balance_from_thumb' = info[2]
          /\ visits' = Append(visits,
               Visit(idx, ~Truthy(info[1]) /\ same, Some(name),
                     IF sib.kind = "raises" THEN "sibling" ELSE "none"))
  /\ pc' = "card_balance"
  /\ UNCHANGED <<result, launched, closes, log, num_cards, idx,
                 balance_list, all_transactions, files, writes, rowVars>>

\* thumb.click() raises
CardClickRaises ==
  /\ pc = "card"
  /\ visits' = Append(visits, Visit(idx, FALSE, None, "click"))
  /\ log' = Append(log, CardWarning)
  /\ NextCard
  /\ UNCHANGED <<result, launched, closes, num_cards, prev_name,
                 balance_list, all_transactions, files, writes, rowVars>>

\* the reading of the card name (line 252 or 254) raises
CardNameRaises ==
  /\ pc = "card"
  /\ \E sib \in Siblings :
       /\ ~Truthy(ThumbInfo(sib)[1])
       /\ visits' = Append(visits,
            Visit(idx, FALSE, None, "name"))
  /\ log' = Append(log, CardWarning)
  /\ NextCard
  /\ UNCHANGED <<result, launched, closes, num_cards, prev_name,
                 balance_list, all_transactions, files, writes, rowVars>>

\* lines 259-274: balance_text, bal, balance_list
CardBalance ==
  /\ pc = "card_balance"
  /\ \E shown \in BalanceReadings :
       LET balance_text == IF Truthy(balance_from_thumb)
                           THEN balance_from_thumb ELSE shown
           bal == ParseBalance(balance_text)
       IN /\ Truthy(balance_from_thumb) => shown = None
          /\ balance_list' = AppendBalance(balance_list, card_name, bal)
          /\ visits' = SetLast(visits, "bal", bal)
  /\ pc' = "card_trips"
  /\ UNCHANGED <<result, launched, closes, log, num_cards, idx, prev_name,
                 card_name, balance_from_thumb, all_transactions, files,
                 writes, rowVars>>

\* the reading of the balance (line 262) raises
CardBalanceRaises ==
  /\ pc = "card_balance"
  /\ ~Truthy(balance_from_thumb)
  /\ visits' = SetLast(visits, "raised", "balance")
  /\ log' = Append(log, CardWarning)
  /\ NextCard
  /\ UNCHANGED <<result, launched, closes, num_cards, prev_name,
                 balance_list, all_transactions, files, writes, rowVars>>

CardTripsMutAssign ==
  /\ pc = "card_trips"
  /\ \E ext \in Extractions :
       /\ all_transactions' = extract_trip_items(ext, card_name, clock)
       /\ visits' = SetLast(visits, "items",
            IF ext.kind = "items" THEN Some(ext.items) ELSE None)
  /\ NextCard
  /\ UNCHANGED <<result, launched, closes, log, num_cards, prev_name,
                 balance_list, files, writes, rowVars>>

\* lines 276-277: trips, all_transactions.extend(trips)
CardTrips ==
  /\ pc = "card_trips"
  /\ \E ext \in Extractions :
       /\ all_transactions' =
            all_transactions \o extract_trip_items(ext, card_name, clock)
       /\ visits' = SetLast(visits, "items",
            IF ext.kind = "items" THEN Some(ext.items) ELSE None)
  /\ NextCard
  /\ UNCHANGED <<result, launched, closes, log, num_cards, prev_name,
                 balance_list, files, writes, rowVars>>

\* extract_trip_items raises (a wait or query error that is no PWTimeout)
CardTripsRaises ==
  /\ pc = "card_trips"
  /\ visits' = SetLast(visits, "raised", "trips")
  /\ log' = Append(log, CardWarning)
  /\ NextCard
  /\ UNCHANGED <<result, launched, closes, num_cards, prev_name,
                 balance_list, all_transactions, files, writes, rowVars>>

\* ---------------------------------------------- scrape_opal: the output ----
WriteTransactions ==
  /\ pc = "write_tx"
  /\ files' = [files EXCEPT !.transactions = Some(all_transactions)]
  /\ writes' = Append(writes, "transactions.json")
  /\ pc' = "write_bal"
  /\ UNCHANGED <<result, launched, closes, log, num_cards, idx, prev_name,
                 card_name, balance_from_thumb, balance_list,
                 all_transactions, visits, rowVars>>

\* open("transactions.json", "w") raises
WriteTransactionsRaises == Propagate("write_tx")

WriteBalance ==
  /\ pc = "write_bal"
  /\ files' = [files EXCEPT !.balance = Some(BalanceObject(balance_list, clock))]
  /\ writes' = Append(writes, "balance.json")
  /\ pc' = "close"
  /\ UNCHANGED <<result, launched, closes, log, num_cards, idx, prev_name,
                 card_name, balance_from_thumb, balance_list,
                 all_transactions, visits, rowVars>>

\* open("balance.json", "w") raises
WriteBalanceRaises == Propagate("write_bal")

\* line 304
CloseBrowser ==
  /\ pc = "close"
  /\ closes' = closes + 1
  /\ Leave("saved")
  /\ UNCHANGED <<launched, log, num_cards, idx, prev_name, card_name,
                 balance_from_thumb, balance_list, all_transactions, files,
                 writes, visits, rowVars>>

Next ==
  \/ Launch \/ Goto \/ GotoRaises
  \/ LoginFormFound \/ LoginFormTimeout
  \/ FillAndSubmit \/ LoginStepRaises
  \/ LoginValidated \/ LoginTimeout
  \/ DetectCards
  \/ SingleCard \/ SingleCardRaises
  \/ CardName \/ CardClickRaises \/ CardNameRaises
  \/ CardBalance \/ CardBalanceRaises
  \/ CardTrips \/ CardTripsRaises
  \/ WriteTransactions \/ WriteTransactionsRaises
  \/ WriteBalance \/ WriteBalanceRaises
  \/ CloseBrowser

Spec == Init /\ [][Next]_vars

\* ------------------------------------------- extract_trip_items on a row ----
\* One row is drawn at Init and the loop body of extract_trip_items runs on
\* it, for a card named Jo.
AmountChars == {"$", ",", "-", ".", "0", "1", "x"}

AmountTexts == SeqUpTo(AmountChars, MaxAmountLen)

AmountItems == {[R_other EXCEPT !.amount = Some(t)] : t \in AmountTexts}

TimeChars == {"0", "1", "2", "9", ":", "x"}

TimeTexts == SeqUpTo(TimeChars, MaxTimeLen)

TimeItems == {[R_good EXCEPT !.date = Some(t)] : t \in TimeTexts}

IconFragments ==
  { T_train, <<"M", "e", "t", "r", "o">>, T_bus, <<"F", "E", "R", "R", "Y">>,
    T_light, T_rail, <<"-">>, <<"t", "r", "a">>, <<"i", "n">>,
    <<"u", "n", "k", "n", "o", "w", "n">> }

RECURSIVE Concat(_)
Concat(ss) == IF Len(ss) = 0 THEN <<>> ELSE ss[1] \o Concat(Tail(ss))

IconNames == {Concat(fs) : fs \in SeqUpTo(IconFragments, MaxFragments)}

IconItems ==
  {[R_good EXCEPT !.icon = i] :
     i \in {NoIcon, IconRaises} \cup {Icon(n) : n \in IconNames}}

InitRow(items) ==
  /\ InitScrape
  /\ clock \in Clocks
  /\ item \in items
  /\ row_out = NotExtracted

InitAmount == InitRow(AmountItems)
InitTime == InitRow(TimeItems)
InitIcon == InitRow(IconItems)

\* one iteration of lines 98-148
ExtractRow ==
  /\ ~row_out.done
  /\ row_out' = [done |-> TRUE,
                 trips |-> RowTrips(item, Some(N_Jo), clock),
                 warned |-> RowRaises(item)]
  /\ UNCHANGED <<scrapeVars, item, clock>>

NextRow == ExtractRow

SpecAmount == InitAmount /\ [][NextRow]_vars
SpecTime == InitTime /\ [][NextRow]_vars
SpecIcon == InitIcon /\ [][NextRow]_vars

\* ======================================================= the claims ====
FatalLogin == {"form_not_found", "login_failed", "login_timeout"}

NoFileWritten ==
  files.transactions = None /\ files.balance = None /\ writes = <<>>

Warned(i) ==
  \E k \in 1..Len(log) :
    /\ log[k].level = "warning"
    /\ log[k].detail = Some(IntToStr(i))

\* the balance entries balance.json holds
FileBalances ==
  IF ~IsSome(files.balance) THEN <<>>
  ELSE LET obj == Val(files.balance)
       IN IF "cards" \in DOMAIN obj THEN obj.cards
          ELSE IF IsSome(obj.balance)
               THEN <<BalanceEntry(obj.card_id, Val(obj.balance))>>
               ELSE <<>>

FileTransactions ==
  IF IsSome(files.transactions) THEN Val(files.transactions) ELSE <<>>

\* C1: on every path out of scrape_opal after the browser was launched,
\* browser.close has been called exactly once.
C1_ClosedOnceOnEveryExit ==
  (pc = "done" /\ launched) => closes = 1

\* C2: a card whose processing raised at some step (sibling read, click, name,
\* balance, trips) has a warning logged and, once the output is written, no
\* balance entry and no transaction under its card_id (cards that share their
\* name with another card are left out of the comparison).
C2_FailedCardLeavesNoData ==
  result = "saved" =>
    \A i \in 1..Len(visits) :
      LET v == visits[i]
          alone == \A j \in 1..Len(visits) :
                     j # i => visits[j].card_id # v.card_id
      IN (v.idx >= 1 /\ v.raised # "none") =>
           /\ Warned(v.idx)
           /\ (IsSome(v.card_id) /\ alone) =>
                /\ \A k \in 1..Len(FileBalances) :
                     FileBalances[k].card_id # v.card_id
                /\ \A k \in 1..Len(FileTransactions) :
                     FileTransactions[k].card_id # v.card_id

\* C3: a card whose sibling text gives no name and whose displayed name never
\* differs from the previous card's name is labeled Card_<idx>.
C3_UnchangedNameGetsPositionLabel ==
  \A i \in 1..Len(visits) :
    (visits[i].idx >= 1 /\ visits[i].never_differed) =>
      visits[i].card_id = Some(CardLabel(visits[i].idx))

\* C4 as stated: in every state neither file is written, or both are, each
\* once and after all cards.
C4_NeverOneFileAlone ==
  \/ NoFileWritten
  \/ /\ IsSome(files.transactions) /\ IsSome(files.balance)
     /\ writes = <<"transactions.json", "balance.json">>
     /\ pc \in {"close", "done"}

AllCardsProcessed ==
  /\ pc \in {"write_tx", "write_bal", "close", "done"}
  /\ Len(visits) = IF num_cards = 0 THEN 1 ELSE num_cards
  /\ \A i \in 1..Len(visits) :
       visits[i].idx = IF num_cards = 0 THEN 0 ELSE i

\* C4 amended: no file is written before all cards have been processed, each
\* file is written at most once, transactions.json first, and a run that
\* returns after the pass has written both.
C4_NoOutputBeforeFullPass ==
  /\ writes \in {<<>>, <<"transactions.json">>,
                 <<"transactions.json", "balance.json">>}
  /\ IsSome(files.transactions) <=> Len(writes) >= 1
  /\ IsSome(files.balance) <=> Len(writes) = 2
  /\ ~NoFileWritten => AllCardsProcessed
  /\ IsSome(files.transactions) => files.transactions = Some(all_transactions)
  /\ result = "saved" => Len(writes) = 2

C4_Witness ==
  /\ result = "raised"
  /\ writes = <<"transactions.json">>
  /\ num_cards >= 2
  /\ files.balance = None

ParsedRows(items) ==
  SelectSeq(items, LAMBDA r :
    /\ IsSome(r.date) /\ IsSome(r.from) /\ IsSome(r.to)
    /\ (IsSome(r.amount_span) \/ IsSome(r.amount))
    /\ ~RowRaises(r))

RowKeys(items, card_id) ==
  LET rows == ParsedRows(items)
  IN [k \in 1..Len(rows) |->
        <<card_id, Strip(Val(rows[k].from)), Strip(Val(rows[k].to))>>]

RECURSIVE VisitKeys(_)
VisitKeys(vs) ==
  IF Len(vs) = 0 THEN <<>>
  ELSE (IF IsSome(vs[1].items)
        THEN RowKeys(Val(vs[1].items), vs[1].card_id) ELSE <<>>)
         \o VisitKeys(Tail(vs))

RECURSIVE ParsedCount(_)
ParsedCount(vs) ==
  IF Len(vs) = 0 THEN 0
  ELSE (IF IsSome(vs[1].items) THEN Len(ParsedRows(Val(vs[1].items))) ELSE 0)
         + ParsedCount(Tail(vs))

\* C6: transactions.json holds one record per successfully parsed row of the
\* visited cards, in card order then row order, under the card's card_id;
\* a row lacking time, from, to or amount gives no record.
C6_TransactionsAreParsedRows ==
  IsSome(files.transactions) =>
    LET out == Val(files.transactions)
    IN /\ Len(out) = ParsedCount(visits)
       /\ [k \in 1..Len(out) |->
             <<out[k].card_id, out[k].tap_on_location,
               out[k].tap_off_location>>] = VisitKeys(visits)

C6_Witness ==
  /\ result = "saved"
  /\ Len(FileTransactions) = 4
  /\ FileTransactions[1].card_id # FileTransactions[3].card_id
  /\ \E i \in 1..Len(visits) :
       IsSome(visits[i].items)
         /\ Len(ParsedRows(Val(visits[i].items))) < Len(Val(visits[i].items))

RECURSIVE Captured(_)
\* the balances captured, in the order the cards were visited
Captured(vs) ==
  IF Len(vs) = 0 THEN <<>>
  ELSE (IF IsSome(vs[1].bal)
        THEN <<[card_id |-> vs[1].card_id, balance |-> Val(vs[1].bal)]>>
        ELSE <<>>) \o Captured(Tail(vs))

\* C7: one captured balance gives the flat object with that card's card_id
\* and balance; two or more give {cards, last_updated} with one entry per
\* captured balance, in capture order.
C7_BalanceShapeByCount ==
  IsSome(files.balance) =>
    LET obj == Val(files.balance)
        got == Captured(visits)
    IN /\ Len(got) = 1 =>
            /\ DOMAIN obj = {"balance", "currency", "card_id", "last_updated"}
            /\ obj.card_id = got[1].card_id
            /\ obj.balance = Some(got[1].balance)
       /\ Len(got) >= 2 =>
            /\ DOMAIN obj = {"cards", "last_updated"}
            /\ Len(obj.cards) = Len(got)
            /\ \A k \in 1..Len(got) :
                 /\ obj.cards[k].card_id = got[k].card_id
                 /\ obj.cards[k].balance = got[k].balance

C7_Witness ==
  /\ result = "saved"
  /\ "cards" \in DOMAIN Val(files.balance)
  /\ Len(Val(files.balance).cards) = 2
  /\ Val(files.balance).cards[1].card_id # Val(files.balance).cards[2].card_id

\* ---- the claims about one row (SpecAmount, SpecTime, SpecIcon) ----
Extracted == row_out.done /\ Len(row_out.trips) = 1

AmountText == Strip(Val(AmountEl(item)))

\* the amount text without "$", "," and "-" is empty or a decimal numeral
NumericAmount(t) ==
  LET rest == Strip(SelectSeq(t, LAMBDA c : c \notin {"$", ",", "-"}))
      dots == Len(SelectSeq(rest, LAMBDA c : c = "."))
  IN /\ \A i \in 1..Len(rest) : rest[i] \in Digits \cup {"."}
     /\ dots <= 1
     /\ rest = <<>> \/ Len(rest) > dots

HasMinus(t) == \E i \in 1..Len(t) : t[i] = "-"

\* C8: every amount text gives a record without raising; a "-" in the text
\* makes the amount negative or zero, no "-" leaves it non-negative, and
\* non-numeric text gives amount 0.0.
C8_MalformedAmountFallsBackToZero ==
  row_out.done =>
    /\ ~row_out.warned
    /\ Len(row_out.trips) = 1
    /\ HasMinus(AmountText) => row_out.trips[1].amount.m <= 0
    /\ ~HasMinus(AmountText) => row_out.trips[1].amount.m >= 0
    /\ ~NumericAmount(AmountText) => row_out.trips[1].amount = Zero

TimeText == Strip(Val(item.date))

\* the time text is hour ":" minute, two integers int() accepts, in range
HourMinuteText(t) ==
  /\ Len(SelectSeq(t, LAMBDA c : c = ":")) = 1
  /\ LET k == CHOOSE i \in 1..Len(t) : t[i] = ":"
         hh == SubSeq(t, 1, k - 1)
         mm == SubSeq(t, k + 1, Len(t))
     IN /\ IntOk(hh) /\ IntOk(mm)
        /\ 0 <= IntVal(hh) /\ IntVal(hh) <= 23
        /\ 0 <= IntVal(mm) /\ IntVal(mm) <= 59

ElevenHoursApart(trip) ==
  /\ trip.time_local.off = 11
  /\ trip.time_utc.off = 0
  /\ WallMinutes(trip.time_local) - WallMinutes(trip.time_utc) = 11 * 60

\* C9 as stated: whatever the time text, time_local is at UTC+11, time_utc at
\* UTC and the readings are 11 hours apart.
C9_AlwaysElevenHoursApart ==
  Extracted => ElevenHoursApart(row_out.trips[1])

\* C9 amended: a time text that parses as hour:minute gives time_local at
\* that hour and minute at UTC+11 and time_utc 11 hours earlier at UTC,
\* on the previous date when the hour is below 11; any other time text gives
\* the current instant at UTC in both fields.
C9_ElevenHoursApartWhenParsed ==
  Extracted =>
    LET trip == row_out.trips[1]
        k == CHOOSE i \in 1..Len(TimeText) : TimeText[i] = ":"
        hh == IntVal(SubSeq(TimeText, 1, k - 1))
        mm == IntVal(SubSeq(TimeText, k + 1, Len(TimeText)))
    IN IF HourMinuteText(TimeText)
       THEN /\ ElevenHoursApart(trip)
            /\ trip.time_local.hour = hh /\ trip.time_local.minute = mm
            /\ trip.time_utc.minute = mm
            /\ trip.time_utc.hour = (hh + 13) % 24
            /\ trip.time_utc.day =
                 trip.time_local.day - (IF hh < 11 THEN 1 ELSE 0)
            /\ AbsMinutes(trip.time_local) = AbsMinutes(trip.time_utc)
       ELSE /\ trip.time_local = clock
            /\ trip.time_utc = clock

C9_Witness ==
  /\ Extracted
  /\ TimeText = <<"0", "9", ":", "1", "2">>
  /\ row_out.trips[1].time_utc.hour = 22
  /\ row_out.trips[1].time_utc.day = row_out.trips[1].time_local.day - 1

\* "light-rail", the fifth substring C10 names
T_lightrail == T_light \o <<"-">> \o T_rail

Has(sub) == item.icon.kind = "attr" /\ Contains(Lower(item.icon.name), sub)

TypeShown(trip) ==
  /\ trip.trip_type \in TripTypes
  /\ Contains(trip.description, <<"(">> \o trip.trip_type \o <<")">>)

\* C10 as stated: the first of train, metro, bus, ferry, light-rail found in
\* the lowercased iconname decides the type; anything else is Unknown.
C10_FirstOfFiveSubstrings ==
  Extracted =>
    LET trip_type == row_out.trips[1].trip_type
    IN /\ TypeShown(row_out.trips[1])
       /\ trip_type = Train <=> Has(T_train)
       /\ trip_type = Metro <=> ~Has(T_train) /\ Has(T_metro)
       /\ trip_type = Bus <=> ~Has(T_train) /\ ~Has(T_metro) /\ Has(T_bus)
       /\ trip_type = Ferry <=>
            ~Has(T_train) /\ ~Has(T_metro) /\ ~Has(T_bus) /\ Has(T_ferry)
       /\ trip_type = LightRail <=>
            /\ ~Has(T_train) /\ ~Has(T_metro) /\ ~Has(T_bus) /\ ~Has(T_ferry)
            /\ Has(T_lightrail)

\* C10 amended: the fifth test is for "light" or "rail", either of which
\* gives Light Rail; an iconname with none of train, metro, bus, ferry, light,
\* rail, a missing icon or a raising query gives Unknown.
C10_FirstOfSixSubstrings ==
  Extracted =>
    LET trip_type == row_out.trips[1].trip_type
        earlier == Has(T_train) \/ Has(T_metro) \/ Has(T_bus) \/ Has(T_ferry)
    IN /\ TypeShown(row_out.trips[1])
       /\ trip_type = Train <=> Has(T_train)
       /\ trip_type = Metro <=> ~Has(T_train) /\ Has(T_metro)
       /\ trip_type = Bus <=> ~Has(T_train) /\ ~Has(T_metro) /\ Has(T_bus)
       /\ trip_type = Ferry <=>
            ~Has(T_train) /\ ~Has(T_metro) /\ ~Has(T_bus) /\ Has(T_ferry)
       /\ trip_type = LightRail <=>
            ~earlier /\ (Has(T_light) \/ Has(T_rail))
       /\ trip_type = Unknown <=>
            ~earlier /\ ~Has(T_light) /\ ~Has(T_rail)

C10_Witness ==
  /\ Extracted
  /\ item.icon = Icon(T_bus \o T_train)
  /\ row_out.trips[1].trip_type = Train

====
